---- MODULE Spec2Model ----
(***************************************************************************)
(* MediBot AI: the chat session store, the prompt handler and the client   *)
(* initialisation of the two Streamlit programs of the repository,         *)
(*   app.py            eager initialisation through st.cache_resource      *)
(*   streamlit_app.py  lazy initialisation on the first question           *)
(* A Streamlit script is executed from top to bottom once per user event;  *)
(* st.rerun() ends the run and starts another one, st.stop() ends the run. *)
(* pc is the position of the script: between runs ("idle"), before the     *)
(* first run ("load"), between st.rerun() and the run it starts ("rerun"), *)
(* or inside one of the blocking external calls of a run.                  *)
(* Strings are sequences of one-character strings.                         *)
(***************************************************************************)
EXTENDS Integers, Sequences, FiniteSets, TLC

\* ---------------------------------------------------------------- bounds
MaxChats == 3      \* conversations created in one session
MaxMsgs == 4       \* messages held by the store at one time

\* ------------------------------------------------------------- constants
TitleLimit == 30
EvidenceLimit == 300
max_wait == 60
poll_sleep == 2

\* Python's None, for a chat id (chat ids are non-empty strings)
None == <<>>
\* Python's None, for the pipeline handle, and the RetrievalQA object
NoChain == "None"
TheChain == "RetrievalQA"

\* --------------------------------------------------------------- strings
Rep(c, n) == [i \in 1..n |-> c]

Min(a, b) == IF a < b THEN a ELSE b

\* s[:n]
Slice(s, n) == SubSeq(s, 1, Min(n, Len(s)))

startswith(s, prefix) ==
    /\ Len(s) >= Len(prefix)
    /\ SubSeq(s, 1, Len(prefix)) = prefix

Digit(d) == <<"0", "1", "2", "3", "4", "5", "6", "7", "8", "9">>[d + 1]

RECURSIVE str(_)
\* str(n) of a natural number
str(n) == IF n < 10 THEN <<Digit(n)>> ELSE str(n \div 10) \o <<Digit(n % 10)>>

Ellipsis == <<".", ".", ".">>

NewChatPrefix == <<"N", "e", "w", " ", "C", "h", "a", "t">>

ChatIdPrefix == <<"c", "h", "a", "t", "_">>

ErrorPrefix == <<"U+1F614", " ", "S", "o", "r", "r", "y", ",", " ", "I", " ", "e", "n", "c", "o", "u", "n", "t", "e", "r", "e", "d", " ", "a", "n", " ", "e", "r", "r", "o", "r", ":", " ">>

\* the question of the first of the three sample buttons (42 characters); the
\* other two differ in their text only (33 and 49 characters)
SampleQuestions == {
    <<"W","h","a","t"," ","a","r","e"," ","t","h","e"," ","c","o","m","m","o","n"," ","s","y","m","p","t","o","m","s"," ","o","f"," ","i","n","f","l","u","e","n","z","a","?">> }

\* ---------------------------------------------------------------- inputs
\* what the user types into st.chat_input: a text of 30 characters that
\* itself starts with the placeholder words, and a text of 31 characters
Prompts == { NewChatPrefix \o Rep("a", TitleLimit - Len(NewChatPrefix)),
             Rep("b", TitleLimit + 1) }

\* response["result"] of the pipeline
Answers == { <<"r", "e", "s", "t">> }

\* str(e) of an exception raised by the pipeline
Exceptions == { <<"t", "i", "m", "e", "o", "u", "t">> }

\* response["source_documents"]: at most k = 3 documents, of 301, 1 and 300
\* characters
DocLists == { <<>>,
              << Rep("q", EvidenceLimit + 1), <<"x">>, Rep("p", EvidenceLimit) >> }

\* ------------------------------------------- insertion-ordered dictionary
\* a Python dict: a sequence of [key, value] entries in insertion order
HasKey(d, k) == \E i \in 1..Len(d) : d[i].key = k

Keys(d) == [i \in 1..Len(d) |-> d[i].key]

DictGet(d, k) == d[CHOOSE i \in 1..Len(d) : d[i].key = k].value

\* d[k] = v
DictSet(d, k, v) ==
    IF HasKey(d, k)
    THEN [i \in 1..Len(d) |-> IF d[i].key = k THEN [key |-> k, value |-> v] ELSE d[i]]
    ELSE Append(d, [key |-> k, value |-> v])

\* del d[k]
DictDel(d, k) ==
    LET keep == { i \in 1..Len(d) : d[i].key # k }
        RECURSIVE Build(_)
        Build(i) == IF i > Len(d) THEN <<>>
                    ELSE IF i \in keep THEN <<d[i]>> \o Build(i + 1)
                    ELSE Build(i + 1)
    IN Build(1)

\* ----------------------------------------------------------------- state
VARIABLES
    variant,              \* which program runs: "app" or "streamlit_app"
    PINECONE_API_KEY,     \* TRUE iff os.getenv gives a non-empty value
    GROQ_API_KEY,
    has_store,            \* "chat_sessions" in st.session_state
    chat_sessions,        \* st.session_state.chat_sessions
    current_chat_id,      \* st.session_state.current_chat_id
    chat_counter,         \* st.session_state.chat_counter
    initialization_done,  \* st.session_state.initialization_done (lazy)
    lazy_load_triggered,  \* st.session_state.lazy_load_triggered (lazy)
    qa_chain,             \* the pipeline handle the prompt handler uses
    resource_cache,       \* st.cache_resource entry of init_resources (eager)
    show_sources,         \* the "Show Sources" checkbox
    index_status,         \* the remote index: "absent", "creating", "listed"
    wait_time,            \* wait_time of the index wait loop
    pc,                   \* position of the script
    prompt,               \* the question being processed, or None
    rendered,             \* the last run drew the sidebar and the chat input
    shown_error,          \* st.error of the current or last run
    calls,                \* the external calls made by the last step
    clients_constructed,  \* a construction of the clients has been started
    index_create_issued   \* pc.create_index has been called

vars == << variant, PINECONE_API_KEY, GROQ_API_KEY, has_store, chat_sessions,
           current_chat_id, chat_counter, initialization_done,
           lazy_load_triggered, qa_chain, resource_cache, show_sources,
           index_status, wait_time, pc, prompt, rendered, shown_error,
           calls, clients_constructed, index_create_issued >>

envVars == << variant, PINECONE_API_KEY, GROQ_API_KEY >>

lazyVars == << initialization_done, lazy_load_triggered >>

waitVars == << index_status, wait_time, index_create_issued >>

storeVars == << has_store, chat_sessions, current_chat_id, chat_counter >>

\* datetime.now().strftime(...): the clock shows one more minute with every
\* chat that has been created
Times == { chat_counter }

\* ------------------------------------------------------ chat session store
\* The store as a value: [sessions, current, counter].

\* the session state at the start of a run: lines 95-98 create it when absent
SessionState ==
    IF has_store
    THEN [sessions |-> chat_sessions, current |-> current_chat_id, counter |-> chat_counter]
    ELSE [sessions |-> <<>>, current |-> None, counter |-> 0]

create_new_chat(S, ts) ==
    LET chat_id == ChatIdPrefix \o str(S.counter)
        counter == S.counter + 1
        chat == [messages |-> <<>>,
                 title |-> NewChatPrefix \o <<" ">> \o str(counter),
                 timestamp |-> ts]
    IN [sessions |-> DictSet(S.sessions, chat_id, chat),
        current |-> chat_id,
        counter |-> counter]

\* get_current_messages() creating a chat on every call
get_current_messages_always(S, ts) == create_new_chat(S, ts)

\* the store after get_current_messages(); the list it returns is
\* CurrentMessages of that store
get_current_messages(S, ts) ==
    IF S.current = None THEN create_new_chat(S, ts) ELSE S

CurrentMessages(S) == DictGet(S.sessions, S.current).messages

\* the title function cutting at 30 characters and more instead of more
\* than 30
update_chat_title_ge(S, chat_id, first_message) ==
    LET chat == DictGet(S.sessions, chat_id)
        title == IF Len(first_message) >= TitleLimit
                 THEN Slice(first_message, TitleLimit) \o Ellipsis
                 ELSE first_message
    IN IF startswith(chat.title, NewChatPrefix)
       THEN [S EXCEPT !.sessions = DictSet(S.sessions, chat_id, [chat EXCEPT !.title = title])]
       ELSE S

update_chat_title(S, chat_id, first_message) ==
    LET chat == DictGet(S.sessions, chat_id)
        title == IF Len(first_message) > TitleLimit
                 THEN Slice(first_message, TitleLimit) \o Ellipsis
                 ELSE first_message
    IN IF startswith(chat.title, NewChatPrefix)
       THEN [S EXCEPT !.sessions = DictSet(S.sessions, chat_id, [chat EXCEPT !.title = title])]
       ELSE S

\* the delete button without the else branch that clears the active id
delete_chat_stale(S, chat_id) ==
    LET rest == DictDel(S.sessions, chat_id)
    IN [S EXCEPT !.sessions = rest,
                 !.current = IF S.current = chat_id /\ Len(rest) > 0
                             THEN Keys(rest)[Len(rest)]
                             ELSE S.current]

\* the delete button taking the first remaining key instead of the last
delete_chat_first(S, chat_id) ==
    LET rest == DictDel(S.sessions, chat_id)
    IN [S EXCEPT !.sessions = rest,
                 !.current = IF S.current = chat_id
                             THEN IF Len(rest) > 0 THEN Keys(rest)[1] ELSE None
                             ELSE S.current]

\* the sidebar's delete button of chat_id
delete_chat(S, chat_id) ==
    LET rest == DictDel(S.sessions, chat_id)
    IN [S EXCEPT !.sessions = rest,
                 !.current = IF S.current = chat_id
                             THEN IF Len(rest) > 0 THEN Keys(rest)[Len(rest)] ELSE None
                             ELSE S.current]

\* the sidebar's button of chat_id in the chat history
select_chat(S, chat_id) == [S EXCEPT !.current = chat_id]

\* "Clear All Chats" starting the chat counter again
clear_all_chats_reset(S) == [S EXCEPT !.sessions = <<>>, !.current = None, !.counter = 0]

\* "Clear All Chats" without the reset of the active id
clear_all_chats_stale(S) == [S EXCEPT !.sessions = <<>>]

\* the "Clear All Chats" button
clear_all_chats(S) == [S EXCEPT !.sessions = <<>>, !.current = None]

\* the append putting the message at the front of the list
append_message_front(S, m) ==
    LET chat == DictGet(S.sessions, S.current)
    IN [S EXCEPT !.sessions =
           DictSet(S.sessions, S.current, [chat EXCEPT !.messages = <<m>> \o chat.messages])]

\* the append going to the newest chat instead of the active one
append_message_newest(S, m) ==
    LET newest == S.sessions[Len(S.sessions)]
    IN [S EXCEPT !.sessions =
           DictSet(S.sessions, newest.key,
                   [newest.value EXCEPT !.messages = Append(newest.value.messages, m)])]

\* current_messages.append(m): current_messages is the list of the active chat
append_message(S, m) ==
    LET chat == DictGet(S.sessions, S.current)
    IN [S EXCEPT !.sessions =
           DictSet(S.sessions, S.current, [chat EXCEPT !.messages = Append(chat.messages, m)])]

\* the prompt handler without the test for an empty message list
first_message_title_always(S, p) == update_chat_title(S, S.current, p)

\* if len(current_messages) == 0: update_chat_title(current_chat_id, prompt)
first_message_title(S, p) ==
    IF Len(CurrentMessages(S)) = 0 THEN update_chat_title(S, S.current, p) ELSE S

\* a prompt handler that calls the pipeline before recording the question
accept_prompt_late(S, p) == first_message_title(S, p)

\* the prompt handler up to the pipeline call
accept_prompt(S, p) == append_message(first_message_title(S, p), [role |-> "user", content |-> p])

source_text(page_content) == Slice(page_content, EvidenceLimit) \o Ellipsis

\* the list of sources built whatever the "Show Sources" setting is
sources_list_all(source_documents, show) ==
    [i \in 1..Len(source_documents) |-> source_text(source_documents[i])]

sources_list(source_documents, show) ==
    IF Len(source_documents) > 0 /\ show
    THEN [i \in 1..Len(source_documents) |-> source_text(source_documents[i])]
    ELSE <<>>

answer_message(answer, source_documents, show) ==
    [role |-> "assistant", content |-> answer, sources |-> sources_list(source_documents, show)]

error_message(e) == [role |-> "assistant", content |-> ErrorPrefix \o e]

\* the try branch after the pipeline call returned
on_pipeline_result(S, answer, source_documents, show) ==
    append_message(S, answer_message(answer, source_documents, show))

\* an except branch that records nothing
on_pipeline_error_silent(S, e) == S

\* an except branch that records the error twice
on_pipeline_error_twice(S, e) ==
    append_message(append_message(S, error_message(e)), error_message(e))

\* the except branch: the error text is recorded as the assistant's message
on_pipeline_error(S, e) == append_message(S, error_message(e))

RECURSIVE SumLens(_, _)
SumLens(d, i) == IF i > Len(d) THEN 0 ELSE Len(d[i].value.messages) + SumLens(d, i + 1)

TotalMessages == SumLens(chat_sessions, 1)

\* ------------------------------------------------------------ start of a run
\* both programs initialising at the start of every run
Eager_always == TRUE

Eager == variant = "app"

\* init_resources() under st.cache_resource: the body runs on a cache miss
\* only and its return value, None included, is cached. stage is how far the
\* body gets: "clients" (Pinecone or HuggingFaceEmbeddings raises), "chain"
\* (PineconeVectorStore, ChatGroq or RetrievalQA raises) or "ok".
init_resources(stage) ==
    IF resource_cache # <<>>
    THEN [cache |-> resource_cache, value |-> resource_cache[1],
          calls |-> <<>>, constructed |-> clients_constructed]
    ELSE LET chain == IF stage = "ok" THEN TheChain ELSE NoChain
         IN [cache |-> <<chain>>, value |-> chain,
             calls |-> IF stage = "clients" THEN <<"construct_clients">>
                       ELSE <<"construct_clients", "construct_chain">>,
             constructed |-> TRUE]

\* The top of the script. app.py: the secret check (91-93), the session
\* state (95-98), init_resources (133-138). streamlit_app.py: the session
\* state only (26-33); it has no secret check.
Startup(stage) ==
    IF Eager /\ ~(PINECONE_API_KEY /\ GROQ_API_KEY)
    THEN [halt |-> "config", cache |-> resource_cache, value |-> qa_chain,
          calls |-> <<>>, constructed |-> clients_constructed]
    ELSE IF Eager
         THEN LET r == init_resources(stage)
              IN [halt |-> IF r.value = NoChain THEN "init" ELSE "none",
                  cache |-> r.cache, value |-> r.value,
                  calls |-> r.calls, constructed |-> r.constructed]
         ELSE [halt |-> "none", cache |-> resource_cache, value |-> qa_chain,
               calls |-> <<>>, constructed |-> clients_constructed]

Commit(S) ==
    /\ has_store' = TRUE
    /\ chat_sessions' = S.sessions
    /\ current_chat_id' = S.current
    /\ chat_counter' = S.counter

\* st.error + st.stop() of app.py at 92-93 or 137-138
Halted(st) ==
    /\ pc' = "idle"
    /\ prompt' = None
    /\ rendered' = FALSE
    /\ shown_error' = st.halt
    /\ calls' = st.calls
    /\ clients_constructed' = st.constructed
    /\ qa_chain' = st.value
    /\ IF st.halt = "config" THEN UNCHANGED storeVars ELSE Commit(SessionState)
    /\ UNCHANGED << envVars, lazyVars, waitVars, show_sources >>

\* one run of the script: body is what the run does below the start st
Run(st, body) ==
    /\ resource_cache' = st.cache
    /\ IF st.halt = "none" THEN body ELSE Halted(st)

\* a run in which no button is pressed and no question is submitted: the
\* sidebar's get_current_messages() creates a chat when none is active
Render(st, ts, show) ==
    /\ Commit(get_current_messages(SessionState, ts))
    /\ show_sources' = show
    /\ pc' = "idle"
    /\ prompt' = None
    /\ rendered' = TRUE
    /\ shown_error' = "none"
    /\ calls' = st.calls
    /\ clients_constructed' = st.constructed
    /\ qa_chain' = st.value
    /\ UNCHANGED << envVars, lazyVars, waitVars >>

\* a run in which a sidebar button is pressed: its handler, then st.rerun()
Handler(st, S) ==
    /\ Commit(S)
    /\ pc' = "rerun"
    /\ prompt' = None
    /\ shown_error' = "none"
    /\ calls' = st.calls
    /\ clients_constructed' = st.constructed
    /\ qa_chain' = st.value
    /\ UNCHANGED << envVars, lazyVars, waitVars, show_sources, rendered >>

\* the run reaches the pipeline call of the prompt handler; made are the
\* external calls of the step up to it
AtPipeline(S, p, made) ==
    /\ Commit(accept_prompt(S, p))
    /\ pc' = "pipeline"
    /\ prompt' = p
    /\ shown_error' = "none"
    /\ calls' = made \o <<"qa_chain">>
    /\ UNCHANGED << envVars, show_sources, rendered >>

\* a failed initialisation that is recorded in the chat as an assistant
\* message
InitFailed_recorded(S, made) ==
    /\ Commit(append_message(S, [role |-> "assistant", content |-> ErrorPrefix]))
    /\ pc' = "idle"
    /\ prompt' = None
    /\ rendered' = TRUE
    /\ shown_error' = "init"
    /\ calls' = made
    /\ wait_time' = 0
    /\ UNCHANGED << envVars, show_sources, initialization_done, qa_chain >>

\* lazy_init_components() returned None: st.error + st.stop() at 388-389
InitFailed(S, made) ==
    /\ Commit(S)
    /\ pc' = "idle"
    /\ prompt' = None
    /\ rendered' = TRUE
    /\ shown_error' = "init"
    /\ calls' = made
    /\ wait_time' = 0
    /\ UNCHANGED << envVars, show_sources, initialization_done, qa_chain >>

\* ---------------------------------------------------------------- actions
Stages == {"clients", "chain", "ok"}

\* the outcomes of the start of a run: init_resources() has a body to run
\* in app.py with an empty cache only
StartStages == IF Eager /\ resource_cache = <<>> THEN Stages ELSE {"ok"}

\* the first run of the session
FirstRun ==
    /\ pc = "load"
    /\ \E stage \in StartStages, ts \in Times :
          LET st == Startup(stage) IN Run(st, Render(st, ts, show_sources))

\* the run started by st.rerun()
Rerun ==
    /\ pc = "rerun"
    /\ \E stage \in StartStages, ts \in Times :
          LET st == Startup(stage) IN Run(st, Render(st, ts, show_sources))

\* the user ticks or unticks "Show Sources"
ToggleShowSources ==
    /\ pc = "idle" /\ rendered
    /\ \E stage \in StartStages, ts \in Times :
          LET st == Startup(stage) IN Run(st, Render(st, ts, ~show_sources))

ClickNewChat ==
    /\ pc = "idle" /\ rendered
    /\ chat_counter < MaxChats
    /\ \E stage \in StartStages, ts \in Times :
          LET st == Startup(stage)
          IN Run(st, Handler(st, create_new_chat(SessionState, ts)))

ClickSelect(chat_id) ==
    /\ pc = "idle" /\ rendered
    /\ HasKey(chat_sessions, chat_id)
    /\ \E stage \in StartStages :
          LET st == Startup(stage)
          IN Run(st, Handler(st, select_chat(SessionState, chat_id)))

ClickDelete(chat_id) ==
    /\ pc = "idle" /\ rendered
    /\ HasKey(chat_sessions, chat_id)
    /\ Len(chat_sessions) = 1 => chat_counter < MaxChats
    /\ \E stage \in StartStages :
          LET st == Startup(stage)
          IN Run(st, Handler(st, delete_chat(SessionState, chat_id)))

\* "Clear All Chats" stands below the sidebar's get_current_messages()
ClickClearAll ==
    /\ pc = "idle" /\ rendered
    /\ chat_counter < MaxChats
    /\ \E stage \in StartStages, ts \in Times :
          LET st == Startup(stage)
          IN Run(st, Handler(st, clear_all_chats(get_current_messages(SessionState, ts))))

\* lazy_init_components() from line 107 to its first wait or its return.
\* early: how far lines 118-137 get: "clients" (Pinecone or
\* HuggingFaceEmbeddings raises), "list" (list_indexes raises) or "ok";
\* created: create_index returns (TRUE) or raises.
LazyInitStart(S, p, early, created) ==
    /\ clients_constructed' = TRUE
    /\ IF early = "clients" \/ ~PINECONE_API_KEY
       THEN /\ InitFailed(S, <<"construct_clients">>)
            /\ UNCHANGED << index_status, index_create_issued >>
       ELSE IF early = "list"
       THEN /\ InitFailed(S, <<"construct_clients", "list_indexes">>)
            /\ UNCHANGED << index_status, index_create_issued >>
       ELSE IF index_status = "listed"
       THEN /\ Commit(S)
            /\ pc' = "construct"
            /\ prompt' = p
            /\ shown_error' = "none"
            /\ calls' = <<"construct_clients", "list_indexes">>
            /\ UNCHANGED << envVars, show_sources, rendered,
                            initialization_done, qa_chain, waitVars >>
       ELSE /\ index_create_issued' = TRUE
            /\ IF created
               THEN /\ Commit(S)
                    /\ index_status' = "creating"
                    /\ wait_time' = 0
                    /\ pc' = "wait"
                    /\ prompt' = p
                    /\ shown_error' = "none"
                    /\ calls' = <<"construct_clients", "list_indexes", "create_index">>
                    /\ UNCHANGED << envVars, show_sources, rendered,
                                    initialization_done, qa_chain >>
               ELSE /\ InitFailed(S, <<"construct_clients", "list_indexes", "create_index">>)
                    /\ UNCHANGED index_status

\* lazy_init_components() without its early return
already_initialized_never == FALSE

\* an early return that tests the trigger flag instead of the done flag
already_initialized_triggered == lazy_load_triggered

\* if st.session_state.initialization_done: return st.session_state.qa_chain
already_initialized == initialization_done

\* if not st.session_state.lazy_load_triggered: return None, read after the
\* prompt handler has set the flag (381-382)
not_triggered == ~lazy_load_triggered'

\* the prompt handler for the question p
HandlePrompt(st, S, p) ==
    IF Eager
    THEN /\ AtPipeline(S, p, st.calls)
         /\ clients_constructed' = st.constructed
         /\ qa_chain' = st.value
         /\ UNCHANGED << lazyVars, waitVars >>
    ELSE /\ lazy_load_triggered' = TRUE
         /\ IF already_initialized
            THEN /\ AtPipeline(S, p, <<>>)
                 /\ UNCHANGED << initialization_done, qa_chain,
                                 clients_constructed, waitVars >>
            ELSE IF not_triggered
            THEN /\ InitFailed(S, <<>>)
                 /\ UNCHANGED << clients_constructed, index_status, index_create_issued >>
            ELSE \E early \in {"clients", "list", "ok"},
                    created \in IF index_status = "absent" THEN BOOLEAN ELSE {TRUE} :
                    LazyInitStart(S, p, early, created)

\* the user submits p in st.chat_input
SubmitQuestion(p) ==
    /\ pc = "idle" /\ rendered
    /\ TotalMessages + 2 <= MaxMsgs
    /\ \E stage \in StartStages, ts \in Times :
          LET st == Startup(stage)
          IN Run(st, HandlePrompt(st, get_current_messages(SessionState, ts), p))

\* the user presses a sample button, drawn while the active chat has no
\* message
ClickSample(q) ==
    /\ pc = "idle" /\ rendered
    /\ TotalMessages + 2 <= MaxMsgs
    /\ Len(CurrentMessages(SessionState)) = 0
    /\ \E stage \in StartStages, ts \in Times :
          LET st == Startup(stage)
          IN Run(st, HandlePrompt(st, get_current_messages(SessionState, ts), q))

\* a wait loop that does not advance wait_time
WaitPoll_no_clock(raised) ==
    /\ pc = "wait"
    /\ UNCHANGED << resource_cache, lazy_load_triggered, clients_constructed,
                    index_create_issued, index_status >>
    /\ IF raised
       THEN InitFailed(SessionState, <<"list_indexes">>)
       ELSE /\ wait_time' = wait_time
            /\ pc' = IF index_status = "listed" \/ wait_time' >= max_wait
                     THEN "construct" ELSE "wait"
            /\ calls' = <<"list_indexes">>
            /\ UNCHANGED << envVars, storeVars, initialization_done, qa_chain,
                            show_sources, prompt, rendered, shown_error >>

\* one pass of the wait loop (150-154); raised: list_indexes() raises
WaitPoll(raised) ==
    /\ pc = "wait"
    /\ UNCHANGED << resource_cache, lazy_load_triggered, clients_constructed,
                    index_create_issued, index_status >>
    /\ IF raised
       THEN InitFailed(SessionState, <<"list_indexes">>)
       ELSE /\ wait_time' = IF index_status = "listed" THEN wait_time ELSE wait_time + poll_sleep
            /\ pc' = IF index_status = "listed" \/ wait_time' >= max_wait
                     THEN "construct" ELSE "wait"
            /\ calls' = <<"list_indexes">>
            /\ UNCHANGED << envVars, storeVars, initialization_done, qa_chain,
                            show_sources, prompt, rendered, shown_error >>

\* the created index becomes visible in list_indexes()
IndexListed ==
    /\ index_status = "creating"
    /\ index_status' = "listed"
    /\ calls' = <<>>
    /\ UNCHANGED << envVars, storeVars, lazyVars, qa_chain, resource_cache,
                    show_sources, wait_time, pc, prompt, rendered, shown_error,
                    clients_constructed, index_create_issued >>

\* PineconeVectorStore(), ChatGroq() and RetrievalQA (156-194), then the
\* prompt handler from 391 on; ok is the outcome of the constructions
InitConstruct(ok) ==
    /\ pc = "construct"
    /\ UNCHANGED << resource_cache, lazy_load_triggered, clients_constructed,
                    index_status, index_create_issued >>
    /\ IF ok /\ GROQ_API_KEY
       THEN /\ qa_chain' = TheChain
            /\ initialization_done' = TRUE
            /\ wait_time' = 0
            /\ AtPipeline(SessionState, prompt, <<"construct_chain">>)
       ELSE InitFailed(SessionState, <<"construct_chain">>)

\* the end of the run after the pipeline call
RunCompleted(S, error) ==
    /\ Commit(S)
    /\ pc' = "idle"
    /\ prompt' = None
    /\ rendered' = TRUE
    /\ shown_error' = error
    /\ calls' = <<>>
    /\ UNCHANGED << envVars, lazyVars, qa_chain, resource_cache, show_sources,
                    waitVars, clients_constructed >>

\* qa_chain({"query": prompt}) returns
PipelineReturns(answer, source_documents) ==
    /\ pc = "pipeline"
    /\ RunCompleted(on_pipeline_result(SessionState, answer, source_documents,
                                        show_sources), "none")

\* an exception of the pipeline that nothing catches: the run ends at the
\* call, before the chat input is drawn
PipelineRaises_uncaught(e) ==
    /\ pc = "pipeline"
    /\ pc' = "idle"
    /\ prompt' = None
    /\ rendered' = FALSE
    /\ shown_error' = "pipeline"
    /\ calls' = <<>>
    /\ UNCHANGED << envVars, storeVars, lazyVars, qa_chain, resource_cache,
                    show_sources, waitVars, clients_constructed >>

\* qa_chain({"query": prompt}) raises e
PipelineRaises(e) ==
    /\ pc = "pipeline"
    /\ RunCompleted(on_pipeline_error(SessionState, e), "pipeline")

Init ==
    /\ variant \in {"app", "streamlit_app"}
    /\ PINECONE_API_KEY \in BOOLEAN
    /\ GROQ_API_KEY \in BOOLEAN
    /\ has_store = FALSE
    /\ chat_sessions = <<>>
    /\ current_chat_id = None
    /\ chat_counter = 0
    /\ initialization_done = FALSE
    /\ lazy_load_triggered = FALSE
    /\ qa_chain = NoChain
    /\ resource_cache = <<>>
    /\ show_sources = TRUE
    /\ index_status \in IF variant = "app" THEN {"listed"} ELSE {"absent", "listed"}
    /\ wait_time = 0
    /\ pc = "load"
    /\ prompt = None
    /\ rendered = FALSE
    /\ shown_error = "none"
    /\ calls = <<>>
    /\ clients_constructed = FALSE
    /\ index_create_issued = FALSE

ChatIds == { ChatIdPrefix \o str(n) : n \in 0..MaxChats }

Next ==
    \/ FirstRun
    \/ Rerun
    \/ ToggleShowSources
    \/ ClickNewChat
    \/ \E chat_id \in ChatIds : ClickSelect(chat_id)
    \/ \E chat_id \in ChatIds : ClickDelete(chat_id)
    \/ ClickClearAll
    \/ \E p \in Prompts : SubmitQuestion(p)
    \/ \E q \in SampleQuestions : ClickSample(q)
    \/ \E raised \in BOOLEAN : WaitPoll(raised)
    \/ IndexListed
    \/ \E ok \in BOOLEAN : InitConstruct(ok)
    \/ \E answer \in Answers, source_documents \in DocLists :
          PipelineReturns(answer, source_documents)
    \/ \E e \in Exceptions : PipelineRaises(e)

Spec == Init /\ [][Next]_vars

\* ------------------------------------------------------------ properties
Chats == { chat_sessions[i] : i \in 1..Len(chat_sessions) }

\* C1: after every operation, current_chat_id is None if and only if
\* chat_sessions is empty
C1_ActiveNoneIffEmpty == (current_chat_id = None) <=> (Len(chat_sessions) = 0)

\* the only chat has just been deleted (or all chats cleared)
C1_Witness ==
    /\ pc = "rerun"
    /\ chat_counter > 0
    /\ Len(chat_sessions) = 0
    /\ current_chat_id = None

\* C2: in every reachable state current_chat_id is None or a key present in
\* chat_sessions, so get_current_messages never looks up a missing id
C2_ActiveIsPresent ==
    \/ current_chat_id = None
    \/ \E c \in Chats : c.key = current_chat_id

\* a question is being answered in a chat that was selected (it is not the
\* newest one) after another chat had been deleted
C2_Witness ==
    /\ pc = "pipeline"
    /\ Len(chat_sessions) >= 2
    /\ chat_counter > Len(chat_sessions)
    /\ current_chat_id # None
    /\ current_chat_id # chat_sessions[Len(chat_sessions)].key

\* the entries of d other than k, in their order
Without(d, k) == SelectSeq(d, LAMBDA entry : entry.key # k)

\* the key of the entry of d created last (the clock reading of a chat is
\* the number of chats created before it)
MostRecentlyCreated(d) ==
    (CHOOSE c \in { d[i] : i \in 1..Len(d) } :
        \A i \in 1..Len(d) : d[i].value.timestamp <= c.value.timestamp).key

\* C3: deleting chat_id removes exactly that entry and leaves the others as
\* they are; if chat_id was active, the active id becomes the most recently
\* created remaining chat, or None when none remains; otherwise it is kept
C3_DeleteEffect ==
    [][\A chat_id \in ChatIds :
          ClickDelete(chat_id) =>
             LET rest == Without(chat_sessions, chat_id)
             IN /\ chat_sessions' = rest
                /\ Len(rest) = Len(chat_sessions) - 1
                /\ current_chat_id' =
                      IF current_chat_id = chat_id
                      THEN IF Len(rest) = 0 THEN None ELSE MostRecentlyCreated(rest)
                      ELSE current_chat_id]_vars

\* the newest of three chats was active and has just been deleted
C3_Witness ==
    /\ pc = "rerun"
    /\ chat_counter = 3
    /\ Keys(chat_sessions) = << ChatIdPrefix \o str(0), ChatIdPrefix \o str(1) >>
    /\ current_chat_id = ChatIdPrefix \o str(1)

\* the title the first message m of a chat gives it
TitleOf(m) == IF Len(m) <= TitleLimit THEN m ELSE SubSeq(m, 1, TitleLimit) \o Ellipsis

\* the chat of d with the key k, as a set of at most one chat
ChatOf(d, k) == { d[i].value : i \in { j \in 1..Len(d) : d[j].key = k } }

\* C4: the title of a chat is rewritten once: a chat that holds messages
\* carries the title derived from its first message, which is the user's,
\* and the title of a chat changes only in the step that appends its first
\* message
C4_TitleRewrittenOnce ==
    [][\A i \in 1..Len(chat_sessions') :
          LET now == chat_sessions'[i].value
          IN /\ Len(now.messages) >= 1 =>
                   /\ now.messages[1].role = "user"
                   /\ now.title = TitleOf(now.messages[1].content)
             /\ \A before \in ChatOf(chat_sessions, chat_sessions'[i].key) :
                   now.title # before.title =>
                      Len(before.messages) = 0 /\ Len(now.messages) >= 1]_vars

\* a chat holds the answers to two questions; its first question begins
\* with the placeholder words and its second question is another text
C4_Witness ==
    \E c \in Chats :
       /\ Len(c.value.messages) >= 3
       /\ startswith(c.value.messages[1].content, NewChatPrefix)
       /\ c.value.messages[3].role = "user"
       /\ c.value.messages[3].content # c.value.messages[1].content

\* C5: in the step that appends the first message m of a chat, the title of
\* the chat becomes m when len(m) <= 30 and m[:30] + "..." when len(m) > 30
C5_TitleTruncation ==
    [][\A i \in 1..Len(chat_sessions') :
          LET now == chat_sessions'[i].value
          IN (/\ Len(now.messages) >= 1
              /\ \A before \in ChatOf(chat_sessions, chat_sessions'[i].key) :
                    Len(before.messages) = 0)
             => LET m == now.messages[1].content
                IN /\ Len(m) <= TitleLimit => now.title = m
                   /\ Len(m) > TitleLimit =>
                         /\ Len(now.title) = TitleLimit + 3
                         /\ SubSeq(now.title, 1, TitleLimit) = SubSeq(m, 1, TitleLimit)
                         /\ SubSeq(now.title, TitleLimit + 1, TitleLimit + 3) = <<".", ".", ".">>]_vars

\* one chat was opened by a question of 30 characters and another one by a
\* question of 31 characters
C5_Witness ==
    \E c, d \in Chats :
       /\ Len(c.value.messages) >= 1
       /\ Len(c.value.messages[1].content) = TitleLimit
       /\ c.value.title = c.value.messages[1].content
       /\ Len(d.value.messages) >= 1
       /\ Len(d.value.messages[1].content) = TitleLimit + 1
       /\ Len(d.value.title) = TitleLimit + 3

\* C6: as long as a chat is in the store, every step leaves the messages it
\* held where they were and as they were: its message list after the step
\* starts with its message list before the step
C6_AppendOnly ==
    [][\A i \in 1..Len(chat_sessions') :
          \A before \in ChatOf(chat_sessions, chat_sessions'[i].key) :
             LET now == chat_sessions'[i].value
             IN /\ Len(now.messages) >= Len(before.messages)
                /\ SubSeq(now.messages, 1, Len(before.messages)) = before.messages]_vars

\* a chat holds two questions and their answers while other chats were
\* created
C6_Witness ==
    /\ chat_counter >= 2
    /\ \E c \in Chats :
          /\ Len(c.value.messages) = 4
          /\ c.value.messages[1].role = "user"
          /\ c.value.messages[2].role = "assistant"
          /\ c.value.messages[3].role = "user"
          /\ c.value.messages[4].role = "assistant"

\* C7: when the pipeline call raises e, the run ends normally, the active
\* chat gains exactly one message, the assistant's, with the error text, and
\* nothing else in the store changes
C7_PipelineFailureContained ==
    [][\A e \in Exceptions :
          PipelineRaises(e) =>
             LET before == DictGet(chat_sessions, current_chat_id)
                 now == DictGet(chat_sessions', current_chat_id)
             IN /\ pc' = "idle" /\ rendered'
                /\ current_chat_id' = current_chat_id
                /\ chat_counter' = chat_counter
                /\ Keys(chat_sessions') = Keys(chat_sessions)
                /\ \A i \in 1..Len(chat_sessions) :
                      chat_sessions[i].key # current_chat_id =>
                         chat_sessions'[i] = chat_sessions[i]
                /\ now.title = before.title
                /\ now.timestamp = before.timestamp
                /\ Len(now.messages) = Len(before.messages) + 1
                /\ SubSeq(now.messages, 1, Len(before.messages)) = before.messages
                /\ now.messages[Len(now.messages)] =
                      [role |-> "assistant", content |-> ErrorPrefix \o e]]_vars

\* the pipeline has just raised on the second question of a chat, in a
\* store of two chats
C7_Witness ==
    /\ pc = "idle"
    /\ shown_error = "pipeline"
    /\ Len(chat_sessions) >= 2
    /\ LET messages == CurrentMessages(SessionState)
       IN /\ Len(messages) = 4
          /\ messages[3].role = "user"
          /\ startswith(messages[4].content, ErrorPrefix)

\* C8: the evidence string of a passage of more than 300 characters is its
\* first 300 characters followed by "...", and the evidence string of a
\* passage of 300 characters or fewer is the passage itself
C8_EvidenceTruncation ==
    [][\A answer \in Answers, source_documents \in DocLists :
          (PipelineReturns(answer, source_documents) /\ show_sources) =>
             LET messages == DictGet(chat_sessions', current_chat_id).messages
                 sources == messages[Len(messages)].sources
             IN /\ Len(sources) = Len(source_documents)
                /\ \A i \in 1..Len(source_documents) :
                      sources[i] = IF Len(source_documents[i]) > EvidenceLimit
                                   THEN SubSeq(source_documents[i], 1, EvidenceLimit) \o Ellipsis
                                   ELSE source_documents[i]]_vars

\* client initialisation has succeeded: init_resources() has cached a
\* pipeline, or lazy_init_components() has set initialization_done
InitSucceeded ==
    IF Eager
    THEN resource_cache # <<>> /\ resource_cache[1] # NoChain
    ELSE initialization_done

Made(call) == \E i \in 1..Len(calls) : calls[i] = call

\* C9 as stated: after a successful initialisation the accessor returns the
\* same handle without constructing clients or creating the index, and
\* pc.create_index is never called a second time in a session
C9_NoSecondIndexCreation ==
    [][/\ InitSucceeded =>
             /\ qa_chain' = qa_chain
             /\ ~Made("construct_clients")'
             /\ ~Made("construct_chain")'
             /\ ~Made("create_index")'
       /\ Made("create_index")' => ~index_create_issued]_vars

\* C9, amended: after a successful initialisation every step keeps the
\* handle, the pipeline that was built, and neither constructs a client nor
\* calls pc.create_index; the calls of pc.create_index all come before that
\* success
C9_CachedAfterSuccess ==
    [][/\ InitSucceeded =>
             /\ qa_chain # NoChain
             /\ qa_chain' = qa_chain
             /\ InitSucceeded'
             /\ ~Made("construct_clients")'
             /\ ~Made("construct_chain")'
             /\ ~Made("create_index")'
       /\ Made("create_index")' => ~InitSucceeded]_vars

\* the lazy program created the index, initialised, and is answering its
\* second question through the accessor's early return
C9_Witness ==
    /\ ~Eager
    /\ initialization_done
    /\ index_create_issued
    /\ pc = "pipeline"
    /\ calls = <<"qa_chain">>
    /\ Len(CurrentMessages(SessionState)) = 3

\* C10: with PINECONE_API_KEY or GROQ_API_KEY missing, each program stops at
\* startup with an error: it sets up no session state, creates no chat,
\* accepts no question and constructs no client
C10_MissingSecretHalts ==
    (~PINECONE_API_KEY \/ ~GROQ_API_KEY) =>
       /\ ~has_store
       /\ Len(chat_sessions) = 0
       /\ chat_counter = 0
       /\ ~clients_constructed
       /\ pc \in {"load", "idle"}
       /\ pc = "idle" => shown_error = "config" /\ ~rendered

\* a run that presses no button and submits no question, completed
RenderRun == (FirstRun \/ Rerun \/ ToggleShowSources) /\ pc' = "idle" /\ rendered'

\* C11: get_current_messages() with no active chat creates exactly one
\* chat, new to the store and empty, makes it the active one and returns
\* its empty list; with an active chat it creates nothing and returns the
\* list of that chat
C11_GetActiveMessages ==
    [][RenderRun =>
          IF SessionState.current = None
          THEN LET n == Len(SessionState.sessions)
               IN /\ Len(chat_sessions') = n + 1
                  /\ SubSeq(chat_sessions', 1, n) = SessionState.sessions
                  /\ ~HasKey(SessionState.sessions, chat_sessions'[n + 1].key)
                  /\ chat_sessions'[n + 1].value.messages = <<>>
                  /\ current_chat_id' = chat_sessions'[n + 1].key
                  /\ CurrentMessages(SessionState)' = <<>>
          ELSE /\ chat_sessions' = chat_sessions
               /\ current_chat_id' = current_chat_id
               /\ chat_counter' = chat_counter
               /\ CurrentMessages(SessionState)' = CurrentMessages(SessionState)]_vars

\* the first chat of the session is gone and the store was empty; the run
\* after that has made a fresh, empty chat the active one
C11_Witness ==
    /\ pc = "idle" /\ rendered
    /\ chat_counter = 2
    /\ Keys(chat_sessions) = << ChatIdPrefix \o str(1) >>
    /\ current_chat_id = ChatIdPrefix \o str(1)
    /\ CurrentMessages(SessionState) = <<>>

\* C12: chat_counter never decreases; the ids in the store are ids that
\* create_new_chat handed out, chat_0 .. chat_(counter-1); a chat that a
\* step adds has the id chat_counter, which is none of them, and the counter
\* goes up by one; the other chats stay as they are, and the new chat has no
\* message, the title "New Chat <counter>" and is the active one
C12_FreshIds ==
    [][/\ chat_counter' >= chat_counter
       /\ \A c \in Chats : \E n \in 0..(chat_counter - 1) : c.key = ChatIdPrefix \o str(n)
       /\ \A i \in 1..Len(chat_sessions') :
             ~HasKey(chat_sessions, chat_sessions'[i].key) =>
                /\ chat_sessions'[i].key = ChatIdPrefix \o str(chat_counter)
                /\ chat_counter' = chat_counter + 1
                /\ i = Len(chat_sessions')
                /\ SubSeq(chat_sessions', 1, i - 1) = chat_sessions
                /\ chat_sessions'[i].value.messages = <<>>
                /\ chat_sessions'[i].value.title = NewChatPrefix \o <<" ">> \o str(chat_counter')
                /\ current_chat_id' = chat_sessions'[i].key]_vars

\* the third chat of the session was created after the first two had been
\* removed
C12_Witness ==
    /\ chat_counter = 3
    /\ Len(chat_sessions) = 1
    /\ chat_sessions[1].key = ChatIdPrefix \o str(2)
    /\ chat_sessions[1].value.title = NewChatPrefix \o <<" ", "3">>
    /\ chat_sessions[1].value.messages = <<>>
    /\ current_chat_id = chat_sessions[1].key

Last(s) == s[Len(s)]

\* C13: whenever the pipeline is called, and as long as the call lasts, the
\* last message of the active chat is the user's message with the question
\* the pipeline is called for
C13_UserMessageBeforePipeline ==
    (pc = "pipeline" \/ Made("qa_chain")) =>
       /\ pc = "pipeline"
       /\ prompt # None
       /\ current_chat_id # None
       /\ Len(CurrentMessages(SessionState)) >= 1
       /\ Last(CurrentMessages(SessionState)) = [role |-> "user", content |-> prompt]

\* the pipeline is being called for the second question of a chat, which
\* differs from the first one
C13_Witness ==
    /\ pc = "pipeline"
    /\ Made("qa_chain")
    /\ Len(CurrentMessages(SessionState)) = 3
    /\ CurrentMessages(SessionState)[3] = [role |-> "user", content |-> prompt]
    /\ CurrentMessages(SessionState)[1].content # prompt

\* the run that recorded a failure of the pipeline has ended
AfterPipelineFailure == pc = "idle" /\ shown_error = "pipeline"

C15_EvidencePerPassage ==
    [][\A answer \in Answers, source_documents \in DocLists :
          PipelineReturns(answer, source_documents) =>
             LET message == Last(CurrentMessages(SessionState)')
             IN /\ message.role = "assistant"
                /\ message.content = answer
                /\ Len(message.sources) = Len(source_documents)
                /\ \A i \in 1..Len(source_documents) :
                      startswith(message.sources[i], Slice(source_documents[i], EvidenceLimit))]_vars

\* C15, amended: the message appended for an answer carries the answer text
\* unchanged; with "Show Sources" ticked it carries one evidence entry per
\* retrieved passage, in retrieval order, the i-th being the first 300
\* characters of the i-th passage followed by "..."; with "Show Sources"
\* unticked it carries no evidence entry
C15_EvidenceWhenShown ==
    [][\A answer \in Answers, source_documents \in DocLists :
          PipelineReturns(answer, source_documents) =>
             LET message == Last(CurrentMessages(SessionState)')
             IN /\ Len(CurrentMessages(SessionState)') = Len(CurrentMessages(SessionState)) + 1
                /\ message.role = "assistant"
                /\ message.content = answer
                /\ Len(message.sources) = IF show_sources THEN Len(source_documents) ELSE 0
                /\ \A i \in 1..Len(message.sources) :
                      /\ Len(message.sources[i]) = Min(Len(source_documents[i]), EvidenceLimit) + 3
                      /\ startswith(message.sources[i], Slice(source_documents[i], EvidenceLimit))
                      /\ SubSeq(message.sources[i], Len(message.sources[i]) - 2,
                                Len(message.sources[i])) = <<".", ".", ".">>]_vars

\* a chat holds an answer recorded with its three sources and, after "Show
\* Sources" was unticked, an answer recorded without any
C15_Witness ==
    /\ pc = "idle" /\ ~show_sources
    /\ Len(CurrentMessages(SessionState)) = 4
    /\ CurrentMessages(SessionState)[2].content \in Answers
    /\ Len(CurrentMessages(SessionState)[2].sources) = 3
    /\ CurrentMessages(SessionState)[4].content \in Answers
    /\ CurrentMessages(SessionState)[4].sources = <<>>

\* C16 as stated: in streamlit_app.py the construction of the clients is
\* started at most once in a session, failed initialisations included, and
\* every pipeline call goes to the pipeline that was built
C16_ConstructedOnce ==
    [][~Eager =>
          /\ Made("construct_clients")' => ~clients_constructed
          /\ Made("qa_chain")' => qa_chain' = TheChain]_vars

\* C16, amended: in streamlit_app.py an initialisation completes at most
\* once in a session: a construction of the clients is started only while
\* initialization_done is false, the flag and the handle stay once set, and
\* every pipeline call goes to the pipeline of the completed initialisation
C16_CompletedOnce ==
    [][~Eager =>
          /\ Made("construct_clients")' => ~initialization_done
          /\ Made("construct_chain")' => ~initialization_done
          /\ initialization_done => initialization_done' /\ qa_chain' = qa_chain
          /\ initialization_done' <=> qa_chain' = TheChain
          /\ Made("qa_chain")' => initialization_done' /\ qa_chain' = TheChain]_vars

\* a second construction has been started: this attempt found the index
\* listed, which an earlier, failed attempt of the session had created
C16_Witness ==
    /\ ~Eager
    /\ pc = "construct"
    /\ index_create_issued
    /\ ~initialization_done
    /\ calls = <<"construct_clients", "list_indexes">>

Lazy == variant = "streamlit_app"

\* the step is a run of a sidebar button or a run without any event
NoQuestionRun ==
    \/ FirstRun \/ Rerun \/ ToggleShowSources \/ ClickNewChat \/ ClickClearAll
    \/ \E chat_id \in ChatIds : ClickSelect(chat_id) \/ ClickDelete(chat_id)

\* C17: in streamlit_app.py, as long as no question has been submitted
\* (lazy_load_triggered is false) no client has been constructed, the index
\* has been neither listed nor created and there is no pipeline; a run of
\* new chat, select, delete, clear all or a plain run makes no external
\* call and leaves the initialisation state as it is; a step that makes a
\* call of the initialisation belongs to a submitted question
C17_InitDeferred ==
    /\ []((Lazy /\ ~lazy_load_triggered) =>
             /\ ~clients_constructed
             /\ ~index_create_issued
             /\ ~initialization_done
             /\ qa_chain = NoChain
             /\ calls = <<>>
             /\ index_status \in {"absent", "listed"}
             /\ pc \in {"load", "idle", "rerun"})
    /\ [][Lazy =>
             /\ NoQuestionRun =>
                   /\ calls' = <<>>
                   /\ UNCHANGED << lazy_load_triggered, initialization_done, qa_chain,
                                   clients_constructed, index_create_issued, index_status >>
             /\ (\/ Made("construct_clients")' \/ Made("list_indexes")'
                 \/ Made("create_index")' \/ Made("construct_chain")')
                => /\ lazy_load_triggered'
                   /\ \/ pc = "idle" /\ pc' # "rerun"
                      \/ pc \in {"wait", "construct"}]_vars

\* streamlit_app.py after three chats were created and two removed, with
\* no question asked yet
C17_Witness ==
    /\ Lazy
    /\ ~lazy_load_triggered
    /\ pc = "idle" /\ rendered
    /\ chat_counter = 3
    /\ Len(chat_sessions) = 1
    /\ ~clients_constructed

\* the polls the wait loop can still make: one per poll_sleep seconds left
PollsLeft == (max_wait - wait_time) \div poll_sleep

\* C18: in streamlit_app.py the wait loop is entered right after one call
\* of pc.create_index, made because the index was not listed, with
\* wait_time = 0, that is with 30 polls left; every poll either ends the
\* loop or leaves one poll less, and the loop is left when none is left: it
\* ends after at most 30 polls whether or not the index appears
C18_BoundedWait ==
    /\ [](/\ wait_time \in 0..max_wait
          /\ wait_time % poll_sleep = 0
          /\ pc = "wait" => Lazy /\ PollsLeft \in 1..30)
    /\ [][/\ (pc # "wait" /\ pc' = "wait") =>
                /\ index_status # "listed"
                /\ calls' = <<"construct_clients", "list_indexes", "create_index">>
                /\ wait_time' = 0
                /\ PollsLeft' = 30
          /\ \A raised \in BOOLEAN :
                WaitPoll(raised) =>
                   /\ calls' = <<"list_indexes">>
                   /\ \/ pc' # "wait"
                      \/ /\ PollsLeft' = PollsLeft - 1
                         /\ PollsLeft' >= 1
                         /\ index_status # "listed"]_vars

\* the loop has been left after its 30th poll and the index is still not
\* listed
C18_Witness ==
    /\ Lazy
    /\ pc = "construct"
    /\ wait_time = max_wait
    /\ PollsLeft = 0
    /\ index_status = "creating"
    /\ calls = <<"list_indexes">>

\* C19: in streamlit_app.py, when the wait expires with the created index
\* still not listed, the initialisation gives up: it constructs no vector
\* store and no pipeline, and initialization_done is not set
C19_GiveUpOnTimeout ==
    [][(Lazy /\ pc = "construct" /\ wait_time >= max_wait /\ index_status # "listed") =>
          /\ ~Made("construct_chain")'
          /\ ~initialization_done'
          /\ qa_chain' = NoChain]_vars

\* C20: in streamlit_app.py a run whose initialisation fails ends with the
\* error shown and nothing else done: from the submission of the question
\* to the failure the store (chats, their messages and titles, active id,
\* counter) stays as it was, initialization_done stays false, there is no
\* pipeline handle and the pipeline is not called
C20_InitFailureFrame ==
    [][Lazy =>
          /\ pc' \in {"wait", "construct"} =>
                /\ UNCHANGED storeVars
                /\ ~initialization_done'
                /\ ~Made("qa_chain")'
          /\ shown_error' = "init" =>
                /\ pc' = "idle"
                /\ prompt' = None
                /\ UNCHANGED storeVars
                /\ ~initialization_done /\ ~initialization_done'
                /\ qa_chain' = NoChain
                /\ ~Made("qa_chain")']_vars

\* the initialisation for the first question of the session has failed in
\* the construction that follows the wait for the index: the chat is still
\* empty and still has its placeholder title
C20_Witness ==
    /\ Lazy
    /\ pc = "idle"
    /\ shown_error = "init"
    /\ index_create_issued
    /\ calls = <<"construct_chain">>
    /\ ~initialization_done
    /\ CurrentMessages(SessionState) = <<>>
    /\ DictGet(chat_sessions, current_chat_id).title = NewChatPrefix \o <<" ", "1">>

\* the messages are the user's and the assistant's in turn, the user's first
Alternating(messages) ==
    \A i \in 1..Len(messages) :
       messages[i].role = IF i % 2 = 1 THEN "user" ELSE "assistant"

\* C21: in every chat the messages are the user's and the assistant's in
\* turn, starting with the user's; outside the pipeline call, and so at the
\* end of every run, every chat holds an even number of messages, each
\* question followed by its one answer or error message; during the call
\* only the active chat has a question without its reply
C21_Alternation ==
    \A c \in Chats :
       /\ Alternating(c.value.messages)
       /\ \/ Len(c.value.messages) % 2 = 0
          \/ pc = "pipeline" /\ c.key = current_chat_id

\* at the end of a run the store holds a chat whose question was answered
\* and a chat whose question ended in an error message
C21_Witness ==
    /\ pc = "idle" /\ rendered
    /\ \E c, d \in Chats :
          /\ Len(c.value.messages) = 2
          /\ c.value.messages[2].content \in Answers
          /\ Len(d.value.messages) = 2
          /\ startswith(d.value.messages[2].content, ErrorPrefix)

\* the step belongs to the handling of a submitted question
QuestionStep ==
    \/ \E p \in Prompts : SubmitQuestion(p)
    \/ \E q \in SampleQuestions : ClickSample(q)
    \/ \E raised \in BOOLEAN : WaitPoll(raised)
    \/ \E ok \in BOOLEAN : InitConstruct(ok)
    \/ \E answer \in Answers, source_documents \in DocLists :
          PipelineReturns(answer, source_documents)
    \/ \E e \in Exceptions : PipelineRaises(e)

\* C22: the handling of a question keeps the chats, the active id and the
\* counter, leaves every chat but the active one as it is, and changes of
\* the active chat its messages only and, with its first message, its title;
\* selecting a chat changes the active id only; creating a chat leaves the
\* chats there are as they are
C22_Frame ==
    [][/\ QuestionStep =>
             /\ Keys(chat_sessions') = Keys(chat_sessions)
             /\ current_chat_id' = current_chat_id
             /\ chat_counter' = chat_counter
             /\ \A i \in 1..Len(chat_sessions) :
                   IF chat_sessions[i].key = current_chat_id
                   THEN /\ chat_sessions'[i].value.timestamp = chat_sessions[i].value.timestamp
                        /\ chat_sessions'[i].value.title # chat_sessions[i].value.title =>
                              Len(chat_sessions[i].value.messages) = 0
                   ELSE chat_sessions'[i] = chat_sessions[i]
       /\ \A chat_id \in ChatIds :
             ClickSelect(chat_id) =>
                /\ current_chat_id' = chat_id
                /\ chat_sessions' = chat_sessions
                /\ chat_counter' = chat_counter
       /\ ClickNewChat =>
             /\ Len(chat_sessions') = Len(chat_sessions) + 1
             /\ SubSeq(chat_sessions', 1, Len(chat_sessions)) = chat_sessions]_vars

\* two chats hold a question and its reply each, and the older one has been
\* selected again
C22_Witness ==
    /\ pc = "idle" /\ rendered
    /\ Len(chat_sessions) = 2
    /\ Len(chat_sessions[1].value.messages) = 2
    /\ Len(chat_sessions[2].value.messages) = 2
    /\ chat_sessions[1].value.title # chat_sessions[2].value.title
    /\ current_chat_id = chat_sessions[1].key

====
